---- MODULE Spec2Model ----
(***************************************************************************)
(* Model of src/main.py: the idempotency-token cache (processed_tokens),   *)
(* the MetricsCollector, the metrics middleware and the handlers that use  *)
(* them, around the persistence call save_marcacion_to_db.                 *)
(*                                                                         *)
(* Scheduling.  Every handler is an `async def` that contains no `await`:  *)
(* the MySQL driver is the blocking mysql.connector, so a handler body     *)
(* runs from its first to its last line in one step of the single asyncio  *)
(* event loop.  The only suspension point of a request is the middleware's *)
(* `await asyncio.wait_for(call_next(request), timeout=20.0)`.  A request  *)
(* therefore takes three steps: the middleware up to the await, the        *)
(* handler body, and the middleware after the await (or one of its two     *)
(* except branches).                                                       *)
(***************************************************************************)
EXTENDS Integers, Sequences, FiniteSets, TLC

\* ------------------------------------------------------------------ bounds

\* Number of requests that the pipeline specification issues.
MaxReq == 3

\* Number of latency recordings issued by the collector specification.
MaxRecordings == 60

\* Period of the latency input streams of the collector specification.
PatternLen == 3

\* Longest text, in characters, handed to simulate_compression.
MaxChars == 4

\* Number of requests that the submission specification issues.
MaxSubmit == 2

\* ------------------------------------------------------- program constants

\* len(self.request_times[endpoint]) > 50
RetentionCap == 50

EP_STANDARD == "/api/test/1-standard"
EP_IDEMPOTENT == "/api/test/3-idempotent"
EP_METRICS == "/api/metrics"
EP_COMPRESSED == "/api/test/2-compressed"
EP_HEALTH == "/api/health"

\* request.url.path of the requests the model issues.
Endpoints == {EP_STANDARD, EP_IDEMPOTENT, EP_METRICS}

\* The three submission endpoints.
WriteEndpoints == {EP_STANDARD, EP_COMPRESSED, EP_IDEMPOTENT}

AllEndpoints == Endpoints \cup WriteEndpoints \cup {EP_HEALTH}

\* marcacion.token_idempotencia: an opaque string.  Tokens are told apart
\* only by equality, so the first token a run submits is called "tok-1".
Tokens == {"tok-1", "tok-2"}

NoToken == "-"

\* time.time() - start_time, in whole units.
Durations == {1, 2}

\* round(processing_time * 1000, 2)
ProcessingTimes == {0, 2}

Reqs == 1..MaxReq

\* ---------------------------------------------------------------- helpers

RECURSIVE Sum(_)
Sum(s) == IF s = <<>> THEN 0 ELSE Head(s) + Sum(Tail(s))

RECURSIVE SumOver(_, _)
SumOver(f, S) ==
    IF S = {} THEN 0
    ELSE LET x == CHOOSE y \in S : TRUE IN f[x] + SumOver(f, S \ {x})

Min(a, b) == IF a < b THEN a ELSE b

\* The last k elements of s (all of s when it is shorter).
LastN(s, k) == SubSeq(s, Len(s) - Min(Len(s), k) + 1, Len(s))

\* d[k] of a defaultdict(int) / defaultdict(list) read without inserting.
GetOr(d, k, default) == IF k \in DOMAIN d THEN d[k] ELSE default

\* d[k] = v on a dict: the key is created when absent.
Put(d, k, v) == [x \in DOMAIN d \cup {k} |-> IF x = k THEN v ELSE d[x]]

\* A quotient a / b of the program, kept exact.
Quot(a, b) == [num |-> a, den |-> b]

QuotEq(p, q) == p.num * q.den = q.num * p.den

\* ------------------------------------------------------ MetricsCollector

VARIABLES
    request_times,      \* metrics.request_times : endpoint -> list of durations
    success_counts,     \* metrics.success_counts : endpoint -> int
    error_counts,       \* metrics.error_counts : endpoint -> int
    mysql_pool,         \* mysql_pool : TRUE for a pool object, FALSE for None
    checked_out,        \* number of the pool's connections that are not in its queue
    marcaciones_test,   \* the rows of table marcaciones_test, in insertion order
    processed_tokens,   \* processed_tokens : token -> stored response body
    req,                \* the requests: position, path, token, response
    save_calls,         \* token -> persistence calls made for it, and how many returned
    recorded,           \* endpoint -> every duration passed to record_request_time
    success_calls,      \* endpoint -> number of record_success calls
    error_calls,        \* endpoint -> number of record_error calls
    pattern,            \* the latency input stream of the collector specification
    call                \* a call of a function of the program: arguments and result

vars == << request_times, success_counts, error_counts, mysql_pool, checked_out,
           marcaciones_test, processed_tokens, req, save_calls,
           recorded, success_calls, error_calls, pattern, call >>

collector == << request_times, success_counts, error_counts >>
collector_calls == << recorded, success_calls, error_calls >>
store == << mysql_pool, checked_out, marcaciones_test, processed_tokens, save_calls >>

\* A record_request_time that never evicts.
record_request_time_no_evict(times, endpoint, duration) ==
    Put(times, endpoint, Append(GetOr(times, endpoint, <<>>), duration))

\* A record_request_time that evicts the newest sample (pop() for pop(0)).
record_request_time_pop_last(times, endpoint, duration) ==
    LET appended == Append(GetOr(times, endpoint, <<>>), duration) IN
    Put(times, endpoint,
        IF Len(appended) > RetentionCap
        THEN SubSeq(appended, 1, Len(appended) - 1)
        ELSE appended)

\* MetricsCollector.record_request_time
record_request_time(times, endpoint, duration) ==
    LET appended == Append(GetOr(times, endpoint, <<>>), duration) IN
    Put(times, endpoint,
        IF Len(appended) > RetentionCap THEN Tail(appended) ELSE appended)

\* A record_success that overwrites the counter instead of adding to it.
record_success_lost(counts, endpoint) == Put(counts, endpoint, 1)

\* MetricsCollector.record_success
record_success(counts, endpoint) ==
    Put(counts, endpoint, GetOr(counts, endpoint, 0) + 1)

\* An error counter that restarts at 1 on every call.
record_error_reset(counts, endpoint) == Put(counts, endpoint, 1)

\* MetricsCollector.record_error
record_error(counts, endpoint) ==
    Put(counts, endpoint, GetOr(counts, endpoint, 0) + 1)

\* get_metrics: sum(times)/len(times) if times else 0
avg_response_time(times) ==
    IF times = <<>> THEN Quot(0, 1) ELSE Quot(Sum(times), Len(times))

\* A response body whose total leaves the errors out.
metrics_body_total_successes(times, successes, errors, tokens, pool) ==
    [ avg_response_times |-> [e \in DOMAIN times |-> avg_response_time(times[e])],
      success_counts |-> successes,
      error_counts |-> errors,
      processed_tokens_count |-> Cardinality(DOMAIN tokens),
      total_requests |-> SumOver(successes, DOMAIN successes),
      mysql_pool_status |-> IF pool THEN "active" ELSE "inactive" ]

\* get_metrics: the response body built from the collector and the cache.
metrics_body(times, successes, errors, tokens, pool) ==
    [ avg_response_times |-> [e \in DOMAIN times |-> avg_response_time(times[e])],
      success_counts |-> successes,
      error_counts |-> errors,
      processed_tokens_count |-> Cardinality(DOMAIN tokens),
      total_requests |-> SumOver(successes, DOMAIN successes)
                         + SumOver(errors, DOMAIN errors),
      mysql_pool_status |-> IF pool THEN "active" ELSE "inactive" ]

\* ------------------------------------------------------------ persistence

\* init_mysql_pool: pool_size=3
pool_size == 3

\* get_db_connection can return a connection: the pool exists and its queue
\* is not empty.  save_marcacion_to_db, init_database and get_test_results
\* give the connection back in their finally blocks, so they leave
\* checked_out as it was.
PoolAvailable == mysql_pool /\ checked_out < pool_size

\* What one call of save_marcacion_to_db can meet.  DB_CONFIG sets
\* autocommit, so the row is committed when cursor.execute returns; a failure
\* of conn.commit() or of conn.close() (which resets the pooled session)
\* comes after that.
SaveOutcomes(pool) ==
    IF pool
    THEN {"no_connection", "execute_failed", "commit_failed", "close_failed", "ok"}
    ELSE {"no_connection"}

\* A cursor that reports the id of the row before the one it inserted.
lastrowid_stale(table) == Len(table)

\* cursor.lastrowid of the next INSERT (AUTO_INCREMENT, rows are never deleted).
lastrowid(table) == Len(table) + 1

\* save_marcacion_to_db: the table afterwards, and how the call ends:
\* "returned" with record_id, "http_500" (the except branch) or "raised"
\* (conn.close() raising inside finally replaces the return).
save_marcacion_to_db(table, test_type, token, outcome) ==
    LET row == [id |-> lastrowid(table), test_type |-> test_type, by_token |-> token] IN
    [ table |-> IF outcome \in {"commit_failed", "close_failed", "ok"}
                THEN Append(table, row) ELSE table,
      ends |-> CASE outcome = "ok" -> "returned"
                 [] outcome = "close_failed" -> "raised"
                 [] OTHER -> "http_500",
      record_id |-> IF outcome = "ok" THEN lastrowid(table) ELSE 0 ]

\* What call_next hands to the middleware.
NoResponse == [kind |-> "none"]
Response(status, body) == [kind |-> "response", status |-> status, body |-> body]
Raised == [kind |-> "raised"]

\* The response the framework builds from HTTPException(status_code=500, ...).
DatabaseError == Response(500, [detail |-> "Database error"])

\* A handler that answers 200 with its result although the persistence call
\* raised HTTPException.
handler_end_swallowing(sv, body) ==
    IF sv.ends = "raised" THEN Raised ELSE Response(200, body)

\* How a handler that called save_marcacion_to_db ends.
handler_end(sv, body) ==
    CASE sv.ends = "returned" -> Response(200, body)
      [] sv.ends = "raised" -> Raised
      [] OTHER -> DatabaseError

\* ------------------------------------------------------ idempotency cache

\* A lookup that never finds the token.
token_seen_never(cache, token) == FALSE

\* test_idempotent_request: marcacion.token_idempotencia in processed_tokens
token_seen(cache, token) == token \in DOMAIN cache

\* A replay that annotates the stored dict itself (no .copy()).
replay_duplicate_aliased(stored) ==
    LET annotated == [stored EXCEPT !.is_duplicate = TRUE, !.processing_time_ms = 0] IN
    [result |-> annotated, stored |-> annotated]

\* A replay that returns the stored response without the annotations.
replay_duplicate_unannotated(stored) == [result |-> stored, stored |-> stored]

\* test_idempotent_request, the duplicate branch: the annotated copy that is
\* returned, and the dict the cache holds afterwards.
replay_duplicate(stored) ==
    [ result |-> [stored EXCEPT !.is_duplicate = TRUE, !.processing_time_ms = 0],
      stored |-> stored ]

\* test_idempotent_request: the result dict of a first-seen submission.
first_result(record_id, token, payload_size, processing_time_ms) ==
    [ success |-> TRUE,
      test_type |-> "idempotent_request",
      record_id |-> record_id,
      token |-> token,
      payload_size_bytes |-> payload_size,
      processing_time_ms |-> processing_time_ms,
      is_duplicate |-> FALSE ]

\* A cache that is written whether or not the persistence call returned.
cache_after_save_always(cache, token, sv, result) == Put(cache, token, result)

\* test_idempotent_request: processed_tokens[token] = result.copy() is reached
\* only when save_marcacion_to_db returned.
cache_after_save(cache, token, sv, result) ==
    IF sv.ends = "returned" THEN Put(cache, token, result) ELSE cache

\* ------------------------------------------------- compression simulator

\* Characters of the serialized text, one for each UTF-8 width up to three.
Chars == {"a", "n~", "EUR"}

\* len(c.encode('utf-8')) of one character.
Utf8Width(c) == CASE c = "a" -> 1 [] c = "n~" -> 2 [] OTHER -> 3

\* len(data.encode('utf-8'))
Utf8Len(data) ==
    LET count(c) == Cardinality({i \in DOMAIN data : data[i] = c}) IN
    count("a") * Utf8Width("a") + count("n~") * Utf8Width("n~")
        + count("EUR") * Utf8Width("EUR")

\* The texts handed to simulate_compression.
Texts == UNION {[1..k -> Chars] : k \in 0..MaxChars}

\* The values of compression_type: "gzip" and a selector that is not "gzip".
CompressionTypes == {"gzip", "estimated"}

\* The bytes gzip puts around the deflate stream: a 10-byte header and an
\* 8-byte trailer (CRC32 and ISIZE).
GzipFraming == 18

\* The shortest deflate stream (that of the empty input), in bytes.
DeflateMin == 2

\* Bytes a stored deflate block adds to the input it carries.
DeflateStoredOverhead == 5

\* len(gzip.compress(b)) for a b of n bytes: the framing plus a deflate stream
\* that is never shorter than the empty one and never longer than the stored
\* block.
GzipSizes(n) ==
    IF n = 0
    THEN {GzipFraming + DeflateMin}
    ELSE (GzipFraming + DeflateMin) .. (GzipFraming + DeflateStoredOverhead + n)

\* A simulate_compression that rounds the estimate to the nearest integer.
simulate_compression_rounded(data, compression_type, gzip_size) ==
    LET original_size == Utf8Len(data)
        compressed_size == IF compression_type = "gzip"
                           THEN gzip_size
                           ELSE (original_size * 4 + 5) \div 10
    IN [ compressed_size |-> compressed_size,
         ratio |-> IF original_size > 0
                   THEN Quot(compressed_size, original_size) ELSE Quot(1, 1) ]

\* simulate_compression; gzip_size is len(gzip.compress(data.encode('utf-8'))).
\* int(original_size * 0.4) truncates the product, which is not negative.
simulate_compression(data, compression_type, gzip_size) ==
    LET original_size == Utf8Len(data)
        compressed_size == IF compression_type = "gzip"
                           THEN gzip_size
                           ELSE (original_size * 2) \div 5
    IN [ compressed_size |-> compressed_size,
         ratio |-> IF original_size > 0
                   THEN Quot(compressed_size, original_size) ELSE Quot(1, 1) ]

\* -------------------------------------------------------------------- records

\* The values a dict holds: a str (its characters), a float, an int or None.
Str(chars) == [kind |-> "str", chars |-> chars]
Float(x) == [kind |-> "float", x |-> x]
Integer(x) == [kind |-> "int", x |-> x]
None == [kind |-> "none"]

\* MarcacionStandard: the eight required fields, in declaration order.
Fields ==
    << "userName", "userEmail", "userDni", "qrCode", "marcationType",
       "latitude", "longitude", "deviceId" >>

FieldSet == {Fields[i] : i \in 1..Len(Fields)}

\* The fields declared float; the others are declared str.
FloatFields == {"latitude", "longitude"}

\* MarcacionCompacta: the name of the field whose alias is f.
ShortName(f) ==
    CASE f = "userName" -> "u"
      [] f = "userEmail" -> "e"
      [] f = "userDni" -> "d"
      [] f = "qrCode" -> "q"
      [] f = "marcationType" -> "t"
      [] f = "latitude" -> "lat"
      [] f = "longitude" -> "lon"
      [] f = "deviceId" -> "dev"

\* MarcacionCompacta: the alias of the field named k.
Alias(k) == CHOOSE f \in FieldSet : ShortName(f) = k

\* MarcacionStandard.dict() of a record without a timestamp.
verbose_dict(record) ==
    [k \in FieldSet \cup {"timestamp"} |-> IF k = "timestamp" THEN None ELSE record[k]]

\* MarcacionCompacta.dict() of a record without a timestamp: keyed by field
\* name, not by alias.
compact_dict(record) ==
    [k \in {ShortName(f) : f \in FieldSet} \cup {"ts"} |->
        IF k = "ts" THEN None ELSE record[Alias(k)]]

\* A row writer whose scan-code column falls back to the compact email key.
row_values_crossed(marcacion_data) ==
    LET get(long, short, default) ==
            GetOr(marcacion_data, long, GetOr(marcacion_data, short, default))
    IN [ user_name |-> get("userName", "u", Str(<< >>)),
         user_email |-> get("userEmail", "e", Str(<< >>)),
         user_dni |-> get("userDni", "d", Str(<< >>)),
         qr_code |-> get("qrCode", "e", Str(<< >>)),
         marcation_type |-> get("marcationType", "t", Str(<< >>)),
         latitude |-> get("latitude", "lat", Integer(0)),
         longitude |-> get("longitude", "lon", Integer(0)),
         device_id |-> get("deviceId", "dev", Str(<< >>)) ]

\* save_marcacion_to_db: the eight record columns handed to cursor.execute,
\* each read as marcacion_data.get(long, marcacion_data.get(short, default)).
row_values(marcacion_data) ==
    LET get(long, short, default) ==
            GetOr(marcacion_data, long, GetOr(marcacion_data, short, default))
    IN [ user_name |-> get("userName", "u", Str(<< >>)),
         user_email |-> get("userEmail", "e", Str(<< >>)),
         user_dni |-> get("userDni", "d", Str(<< >>)),
         qr_code |-> get("qrCode", "q", Str(<< >>)),
         marcation_type |-> get("marcationType", "t", Str(<< >>)),
         latitude |-> get("latitude", "lat", Integer(0)),
         longitude |-> get("longitude", "lon", Integer(0)),
         device_id |-> get("deviceId", "dev", Str(<< >>)) ]

\* Length of a dict key.
KeyLen(k) ==
    CASE k \in {"u", "e", "d", "q", "t"} -> 1
      [] k = "ts" -> 2
      [] k \in {"lat", "lon", "dev"} -> 3
      [] k = "qrCode" -> 6
      [] k = "userDni" -> 7
      [] k \in {"userName", "latitude", "deviceId"} -> 8
      [] k \in {"userEmail", "longitude", "timestamp"} -> 9
      [] k = "marcationType" -> 13

\* json.dumps escapes every non-ASCII character as \uXXXX.
RECURSIVE JsonCharsLen(_)
JsonCharsLen(chars) ==
    IF chars = << >> THEN 0
    ELSE (IF Head(chars) = "a" THEN 1 ELSE 6) + JsonCharsLen(Tail(chars))

\* Length of the JSON text of a value: "…" for a str, repr for a float
\* (0.0, -12.0, -77.0), null for None.
JsonValueLen(v) ==
    CASE v.kind = "str" -> 2 + JsonCharsLen(v.chars)
      [] v.kind = "float" -> IF v.x < 0 THEN 5 ELSE 3
      [] v.kind = "int" -> IF v.x < 0 THEN 3 ELSE 1
      [] OTHER -> 4

\* Length of json.dumps(d): {"key": value, "key": value}.
JsonLen(d) ==
    IF DOMAIN d = {} THEN 2
    ELSE 2 + SumOver([k \in DOMAIN d |-> KeyLen(k) + 4 + JsonValueLen(d[k])], DOMAIN d)
           + 2 * (Cardinality(DOMAIN d) - 1)

\* json.dumps(d, default=str): an ASCII text, kept by its length.
json_dumps(d) == [i \in 1..JsonLen(d) |-> "a"]

\* calculate_payload_size: len(json_str.encode('utf-8')) of an ASCII text.
calculate_payload_size(d) == Utf8Len(json_dumps(d))

\* The record of the worked scenario, and one with a non-ASCII name.
ScenarioRecord ==
    [f \in FieldSet |->
        CASE f = "latitude" -> Float(-12)
          [] f = "longitude" -> Float(-77)
          [] OTHER -> Str(<< "a" >>)]

AccentedRecord == [ScenarioRecord EXCEPT !["userName"] = Str(<< "n~", "a" >>)]

Records == {ScenarioRecord, AccentedRecord}

\* The data of a request that carries no body.
NoRecord == [f \in {} |-> None]

\* ---------------------------------------------------------------- requests

InFlight(r) == req[r].pc = "in_flight"

\* The handler body of request r ran: call_next has an outcome for the
\* middleware; save is how the handler's persistence call ended ("none" when
\* it made none).
Respond(r, save, down) ==
    req' = [req EXCEPT ![r].pc = "responded", ![r].save = save, ![r].down = down]

\* The tokens a new submission may carry: one already submitted, or the next
\* unused one.
FreshOrUsed ==
    IF \E q \in Reqs : req[q].token = "tok-1" THEN Tokens ELSE {"tok-1"}

\* metrics_middleware up to `await asyncio.wait_for(call_next(request), ...)`,
\* for a request to one of the given endpoints whose body, if it is a
\* submission, is one of the given records.  Requests are numbered in arrival
\* order.
Admit(r, endpoints, records) ==
    /\ req[r].pc = "new"
    /\ IF r = 1 THEN TRUE ELSE req[r - 1].pc # "new"
    /\ \E e \in endpoints :
        \E t \in (IF e = EP_IDEMPOTENT THEN FreshOrUsed ELSE {NoToken}),
           d \in (IF e \in WriteEndpoints THEN records ELSE {NoRecord}) :
            LET unseen == t # NoToken /\ ~token_seen(processed_tokens, t)
                rivals == {q \in Reqs : InFlight(q) /\ req[q].token = t}
                races == unseen /\ rivals # {}
            IN req' = [q \in Reqs |->
                        IF q = r
                        THEN [req[q] EXCEPT !.pc = "in_flight", !.endpoint = e,
                                            !.token = t, !.data = d, !.raced = races]
                        ELSE IF races /\ q \in rivals
                        THEN [req[q] EXCEPT !.raced = TRUE]
                        ELSE req[q]]
    /\ UNCHANGED << collector, collector_calls, store, pattern, call >>

\* A request arrives at the standard, idempotent or metrics endpoint.
Arrive(r) == Admit(r, Endpoints, {ScenarioRecord})

\* A duplicate branch that reports the payload size of the body it was sent.
replay_submission_recomputed(r) ==
    LET token == req[r].token
        rp == replay_duplicate(processed_tokens[token])
        own_size == calculate_payload_size(verbose_dict(req[r].data))
    IN /\ processed_tokens' = [processed_tokens EXCEPT ![token] = rp.stored]
       /\ Respond(r, "none", Response(200, [rp.result EXCEPT !.payload_size_bytes = own_size]))
       /\ UNCHANGED << marcaciones_test, save_calls >>

\* test_idempotent_request, the duplicate branch.
replay_submission(r) ==
    LET token == req[r].token
        rp == replay_duplicate(processed_tokens[token])
    IN /\ processed_tokens' = [processed_tokens EXCEPT ![token] = rp.stored]
       /\ Respond(r, "none", Response(200, rp.result))
       /\ UNCHANGED << marcaciones_test, save_calls >>

\* test_idempotent_request from the persistence call to the return.
first_seen_submission(r) ==
    \E outcome \in SaveOutcomes(PoolAvailable), pt \in ProcessingTimes :
        LET token == req[r].token
            marcacion_dict == verbose_dict(req[r].data)
            payload_size == calculate_payload_size(marcacion_dict)
            sv == save_marcacion_to_db(marcaciones_test, "idempotent", token, outcome)
            result == first_result(sv.record_id, token, payload_size, pt)
        IN /\ marcaciones_test' = sv.table
           /\ save_calls' = [save_calls EXCEPT
                                ![token].made = @ + 1,
                                ![token].returned = @ + (IF sv.ends = "returned" THEN 1 ELSE 0)]
           /\ processed_tokens' = cache_after_save(processed_tokens, token, sv, result)
           /\ Respond(r, sv.ends, handler_end(sv, result))

\* test_idempotent_request
test_idempotent_request(r) ==
    /\ InFlight(r)
    /\ req[r].endpoint = EP_IDEMPOTENT
    /\ IF token_seen(processed_tokens, req[r].token)
       THEN replay_submission(r)
       ELSE first_seen_submission(r)
    /\ UNCHANGED << collector, collector_calls, mysql_pool, checked_out, pattern, call >>

\* test_standard_payload
test_standard_payload(r) ==
    /\ InFlight(r)
    /\ req[r].endpoint = EP_STANDARD
    /\ \E outcome \in SaveOutcomes(PoolAvailable), pt \in ProcessingTimes :
        LET marcacion_dict == verbose_dict(req[r].data)
            payload_size == calculate_payload_size(marcacion_dict)
            sv == save_marcacion_to_db(marcaciones_test, "standard", NoToken, outcome)
            body == [ success |-> TRUE, test_type |-> "standard_payload",
                      record_id |-> sv.record_id,
                      payload_size_bytes |-> payload_size,
                      processing_time_ms |-> pt ]
        IN /\ marcaciones_test' = sv.table
           /\ Respond(r, sv.ends, handler_end(sv, body))
    /\ UNCHANGED << collector, collector_calls, mysql_pool, checked_out, processed_tokens,
                    save_calls, pattern, call >>

\* test_compressed_payload.  The response fields compressed_size_bytes,
\* compression_ratio and savings_percent carry what simulate_compression
\* returned for the JSON text and are left to the simulator's specification.
test_compressed_payload(r) ==
    /\ InFlight(r)
    /\ req[r].endpoint = EP_COMPRESSED
    /\ \E outcome \in SaveOutcomes(PoolAvailable), pt \in ProcessingTimes :
        LET marcacion_dict == compact_dict(req[r].data)
            payload_size == calculate_payload_size(marcacion_dict)
            sv == save_marcacion_to_db(marcaciones_test, "compressed", NoToken, outcome)
            body == [ success |-> TRUE, test_type |-> "compressed_payload",
                      record_id |-> sv.record_id,
                      original_size_bytes |-> payload_size,
                      processing_time_ms |-> pt ]
        IN /\ marcaciones_test' = sv.table
           /\ Respond(r, sv.ends, handler_end(sv, body))
    /\ UNCHANGED << collector, collector_calls, mysql_pool, checked_out, processed_tokens,
                    save_calls, pattern, call >>

\* get_metrics
get_metrics(r) ==
    /\ InFlight(r)
    /\ req[r].endpoint = EP_METRICS
    /\ Respond(r, "none", Response(200, metrics_body(request_times, success_counts,
                                             error_counts, processed_tokens,
                                             mysql_pool)))
    /\ UNCHANGED << collector, collector_calls, store, pattern, call >>

Finish(r, how) == req' = [req EXCEPT ![r].pc = "done", ![r].finished = how]

\* metrics_middleware after call_next returned a response.
middleware_return(r) ==
    /\ req[r].pc = "responded"
    /\ req[r].down.kind = "response"
    /\ \E duration \in Durations :
        /\ request_times' = record_request_time(request_times, req[r].endpoint, duration)
        /\ recorded' = [recorded EXCEPT ![req[r].endpoint] = Append(@, duration)]
    /\ success_counts' = record_success(success_counts, req[r].endpoint)
    /\ success_calls' = [success_calls EXCEPT ![req[r].endpoint] = @ + 1]
    /\ Finish(r, "returned")
    /\ UNCHANGED << error_counts, error_calls, store, pattern, call >>

\* A timeout branch that also records the elapsed time as a latency sample.
middleware_timeout_with_latency(r) ==
    /\ req[r].pc \in {"in_flight", "responded"}
    /\ \E duration \in Durations :
        /\ request_times' = record_request_time(request_times, req[r].endpoint, duration)
        /\ recorded' = [recorded EXCEPT ![req[r].endpoint] = Append(@, duration)]
    /\ error_counts' = record_error(error_counts, req[r].endpoint)
    /\ error_calls' = [error_calls EXCEPT ![req[r].endpoint] = @ + 1]
    /\ Finish(r, "timeout_504")
    /\ UNCHANGED << success_counts, success_calls, store, pattern, call >>

\* metrics_middleware, except asyncio.TimeoutError: the 20 s deadline passed
\* before call_next returned, whether or not the handler body has run.
middleware_timeout(r) ==
    /\ req[r].pc \in {"in_flight", "responded"}
    /\ error_counts' = record_error(error_counts, req[r].endpoint)
    /\ error_calls' = [error_calls EXCEPT ![req[r].endpoint] = @ + 1]
    /\ Finish(r, "timeout_504")
    /\ UNCHANGED << request_times, success_counts, recorded, success_calls,
                    store, pattern, call >>

\* metrics_middleware, except Exception: call_next raised.
middleware_exception(r) ==
    /\ req[r].pc = "responded"
    /\ req[r].down.kind = "raised"
    /\ error_counts' = record_error(error_counts, req[r].endpoint)
    /\ error_calls' = [error_calls EXCEPT ![req[r].endpoint] = @ + 1]
    /\ Finish(r, "reraised")
    /\ UNCHANGED << request_times, success_counts, recorded, success_calls,
                    store, pattern, call >>

\* ------------------------------------------------------------ specification

\* The row init_database inserts at startup.
InitRow == [id |-> 1, test_type |-> "init", by_token |-> NoToken]

NewRequest ==
    [ pc |-> "new", endpoint |-> EP_METRICS, token |-> NoToken, data |-> NoRecord,
      raced |-> FALSE, save |-> "none", down |-> NoResponse, finished |-> "no" ]

\* The process after startup_event: the pool exists or init_mysql_pool failed.
InitProcess ==
    /\ request_times = << >>
    /\ success_counts = << >>
    /\ error_counts = << >>
    /\ mysql_pool \in BOOLEAN
    /\ checked_out = 0
    /\ marcaciones_test = IF mysql_pool THEN << InitRow >> ELSE << >>
    /\ processed_tokens = << >>
    /\ req = [r \in Reqs |-> NewRequest]
    /\ save_calls = [t \in Tokens |-> [made |-> 0, returned |-> 0]]
    /\ recorded = [e \in AllEndpoints |-> << >>]
    /\ success_calls = [e \in AllEndpoints |-> 0]
    /\ error_calls = [e \in AllEndpoints |-> 0]

\* No function call is under way.
NoCall == [op |-> "none"]

Init ==
    /\ InitProcess
    /\ pattern = [i \in 1..PatternLen |-> 1]
    /\ call = NoCall

Next ==
    \E r \in Reqs :
        \/ Arrive(r)
        \/ test_idempotent_request(r)
        \/ test_standard_payload(r)
        \/ get_metrics(r)
        \/ middleware_return(r)
        \/ middleware_timeout(r)
        \/ middleware_exception(r)

Spec == Init /\ [][Next]_vars

\* ------------------------------------------------------------ health read

\* What one run of health_check meets: whether get_connection returned,
\* whether the probe SELECT 1 raised and the row it fetched (<< >> for no row),
\* whether SELECT DATABASE() raised, whether conn.close() raised.
HealthRun(connected, probe_raised, row, info_raised, close_raised) ==
    [ connected |-> connected, probe_raised |-> probe_raised, row |-> row,
      info_raised |-> info_raised, close_raised |-> close_raised ]

HealthRuns(pool) ==
    IF ~pool THEN {HealthRun(FALSE, FALSE, << >>, FALSE, FALSE)}
    ELSE {HealthRun(FALSE, FALSE, << >>, FALSE, FALSE),
          HealthRun(TRUE, TRUE, << >>, FALSE, FALSE)}
         \cup {HealthRun(TRUE, FALSE, row, TRUE, FALSE) : row \in {<< >>, << 0 >>, << 1 >>}}
         \cup {HealthRun(TRUE, FALSE, row, FALSE, closed) :
                    row \in {<< >>, << 0 >>, << 1 >>}, closed \in BOOLEAN}

\* A status that is "healthy" whenever the probe fetched a row.
db_status_any_row(pool, run) ==
    CASE ~pool -> "pool not initialized"
      [] ~run.connected \/ run.probe_raised \/ run.info_raised \/ run.close_raised
            -> "unhealthy"
      [] run.row # << >> -> "healthy"
      [] OTHER -> "not connected"

\* health_check: db_status when the function reaches its return.  Any
\* exception inside the try, conn.close() included, sets "unhealthy: ...".
db_status(pool, run) ==
    CASE ~pool -> "pool not initialized"
      [] ~run.connected \/ run.probe_raised \/ run.info_raised \/ run.close_raised
            -> "unhealthy"
      [] run.row # << >> /\ run.row[1] = 1 -> "healthy"
      [] OTHER -> "not connected"

\* health_check keeps the connection it obtained when an exception leaves the
\* try block before conn.close(): the except branch does not close it and the
\* function has no finally.
health_leaks(run) == run.connected /\ (run.probe_raised \/ run.info_raised)

\* health_check.  With every connection of the pool checked out,
\* get_connection raises.
health_check(r) ==
    /\ InFlight(r)
    /\ req[r].endpoint = EP_HEALTH
    /\ \E run \in {x \in HealthRuns(mysql_pool) : x.connected => PoolAvailable} :
        /\ call' = [op |-> "health_check", request |-> r, run |-> run]
        /\ checked_out' = checked_out + (IF health_leaks(run) THEN 1 ELSE 0)
        /\ Respond(r, "none", Response(200, [ status |-> "healthy",
                                               database |-> db_status(mysql_pool, run) ]))
    /\ UNCHANGED << collector, collector_calls, mysql_pool, marcaciones_test,
                    processed_tokens, save_calls, pattern >>

\* A request arrives at the health endpoint.
Probe(r) == Admit(r, {EP_HEALTH}, {NoRecord})

NextHealth ==
    \E r \in Reqs :
        \/ Probe(r)
        \/ health_check(r)
        \/ middleware_return(r)
        \/ middleware_timeout(r)

SpecHealth == Init /\ [][NextHealth]_vars

\* ------------------------------------- the event loop during a blocking call

\* Request r is inside save_marcacion_to_db: the handler coroutine is in a
\* call of the blocking driver and holds the event loop's only thread.
InSave(r) == req[r].pc = "in_save"

\* The event loop is free to run a coroutine.
LoopFree == \A q \in Reqs : ~InSave(q)

\* The middleware admits an idempotent submission.
loop_admit(r) ==
    /\ LoopFree
    /\ Admit(r, {EP_IDEMPOTENT}, {ScenarioRecord})

\* test_idempotent_request of a cached token: the duplicate branch.
loop_replay(r) ==
    /\ LoopFree
    /\ token_seen(processed_tokens, req[r].token)
    /\ test_idempotent_request(r)

\* test_idempotent_request of an unseen token, up to the call of
\* save_marcacion_to_db.
loop_enter_save(r) ==
    /\ LoopFree
    /\ InFlight(r)
    /\ req[r].endpoint = EP_IDEMPOTENT
    /\ ~token_seen(processed_tokens, req[r].token)
    /\ req' = [req EXCEPT ![r].pc = "in_save"]
    /\ UNCHANGED << collector, collector_calls, store, pattern, call >>

\* The blocking call ends and the handler runs to its return.
loop_leave_save(r) ==
    /\ InSave(r)
    /\ first_seen_submission(r)
    /\ UNCHANGED << collector, collector_calls, mysql_pool, checked_out, pattern, call >>

\* The middleware continues after its await.
loop_middleware(r) ==
    /\ LoopFree
    /\ \/ middleware_return(r)
       \/ middleware_timeout(r)
       \/ middleware_exception(r)

NextLoop ==
    \E r \in Reqs :
        \/ loop_admit(r)
        \/ loop_replay(r)
        \/ loop_enter_save(r)
        \/ loop_leave_save(r)
        \/ loop_middleware(r)

SpecLoop == Init /\ [][NextLoop]_vars

\* ---------------------------------------------- the submission operations

\* A submission arrives at one of the three write endpoints.
Submit(r) ==
    /\ r <= MaxSubmit
    /\ Admit(r, WriteEndpoints, Records)

NextSubmit ==
    \E r \in Reqs :
        \/ Submit(r)
        \/ test_standard_payload(r)
        \/ test_compressed_payload(r)
        \/ test_idempotent_request(r)
        \/ middleware_return(r)
        \/ middleware_timeout(r)
        \/ middleware_exception(r)

SpecSubmit == Init /\ [][NextSubmit]_vars

\* ------------------------------------------- the collector on long streams

\* The endpoints the collector specification records for.
StreamEndpoints == {EP_STANDARD, EP_IDEMPOTENT}

\* The n-th duration recorded for an endpoint.
StreamSample(n) == pattern[((n - 1) % PatternLen) + 1]

\* One metrics.record_request_time(endpoint, duration) call.
record_latency(e) ==
    /\ Len(recorded[e]) < MaxRecordings
    /\ LET duration == StreamSample(Len(recorded[e]) + 1) IN
        /\ request_times' = record_request_time(request_times, e, duration)
        /\ recorded' = [recorded EXCEPT ![e] = Append(@, duration)]
    /\ UNCHANGED << success_counts, error_counts, success_calls, error_calls,
                    store, req, pattern, call >>

InitMetrics ==
    /\ InitProcess
    /\ mysql_pool
    /\ pattern \in [1..PatternLen -> Durations]
    /\ call = NoCall

NextMetrics == \E e \in StreamEndpoints : record_latency(e)

SpecMetrics == InitMetrics /\ [][NextMetrics]_vars

\* ----------------------------------------- the simulator on short texts

\* A call simulate_compression(data, compression_type) that has not run yet.
CompressionCall(data, compression_type) ==
    [ op |-> "simulate_compression", data |-> data,
      compression_type |-> compression_type, done |-> FALSE,
      compressed_size |-> 0, ratio |-> Quot(0, 1) ]

\* The call runs.
run_simulate_compression ==
    /\ call.op = "simulate_compression"
    /\ ~call.done
    /\ \E gzip_size \in GzipSizes(Utf8Len(call.data)) :
        LET out == simulate_compression(call.data, call.compression_type, gzip_size) IN
        call' = [call EXCEPT !.done = TRUE,
                             !.compressed_size = out.compressed_size,
                             !.ratio = out.ratio]
    /\ UNCHANGED << collector, collector_calls, store, req, pattern >>

InitCompression ==
    /\ InitProcess
    /\ mysql_pool
    /\ pattern = [i \in 1..PatternLen |-> 1]
    /\ call \in {CompressionCall(d, c) : d \in Texts, c \in CompressionTypes}

NextCompression == run_simulate_compression

SpecCompression == InitCompression /\ [][NextCompression]_vars

\* ------------------------------------------------ records at the boundary

\* The request models of the standard and of the compact endpoint.
ModelClasses == {"MarcacionStandard", "MarcacionCompacta"}

\* A request body spells its keys with the long names or with the short ones.
Spellings == {"long", "short"}

\* A field the request body leaves out.
Absent == [kind |-> "absent"]

\* The values a request body gives to field f.
FieldValues(f) ==
    IF f \in FloatFields THEN {Float(0), Float(-12)}
    ELSE {Str(<< >>), Str(<< "a" >>)}

\* The JSON object of a request body.
WireBody(given, spelling) ==
    LET sent == {f \in FieldSet : given[f] # Absent}
        key(f) == IF spelling = "long" THEN f ELSE ShortName(f)
    IN [k \in {key(f) : f \in sent} |->
            given[CHOOSE f \in sent : key(f) = k]]

\* A required field for which the body has no value.
Missing == [kind |-> "missing"]

\* The value the model class takes for field f (alias f): the body's value
\* under the alias, or, for MarcacionCompacta, whose Config allows population
\* by field name, under the field name.
field_value(model, wire, f) ==
    IF f \in DOMAIN wire THEN wire[f]
    ELSE IF model = "MarcacionCompacta" /\ ShortName(f) \in DOMAIN wire
    THEN wire[ShortName(f)]
    ELSE Missing

\* Validation of a request body against a model class: the record, or a 422
\* rejection when a required field is missing.
validate(model, wire) ==
    LET found == [f \in FieldSet |-> field_value(model, wire, f)] IN
    IF \E f \in FieldSet : found[f] = Missing
    THEN [ok |-> FALSE, record |-> NoRecord]
    ELSE [ok |-> TRUE, record |-> found]

\* marcacion.dict() of the validated model.
model_dict(model, record) ==
    IF model = "MarcacionStandard" THEN verbose_dict(record) ELSE compact_dict(record)

\* The framework validates the body before it calls the handler.
parse_body ==
    /\ call.op = "submit"
    /\ call.stage = "received"
    /\ LET v == validate(call.model, call.wire) IN
       call' = [call EXCEPT !.stage = IF v.ok THEN "validated" ELSE "rejected",
                            !.record = v.record]
    /\ UNCHANGED << collector, collector_calls, store, req, pattern >>

\* The handler hands marcacion.dict() to save_marcacion_to_db, which writes
\* the record columns.
persist_record ==
    /\ call.op = "submit"
    /\ call.stage = "validated"
    /\ call' = [call EXCEPT !.stage = "persisted",
                            !.row = row_values(model_dict(call.model, call.record))]
    /\ UNCHANGED << collector, collector_calls, store, req, pattern >>

InitRecord ==
    /\ InitProcess
    /\ mysql_pool
    /\ pattern = [i \in 1..PatternLen |-> 1]
    /\ \E model \in ModelClasses, spelling \in Spellings :
        \E given \in [FieldSet -> UNION {FieldValues(f) : f \in FieldSet} \cup {Absent}] :
            /\ \A f \in FieldSet : given[f] \in FieldValues(f) \cup {Absent}
            /\ call = [ op |-> "submit", model |-> model,
                        wire |-> WireBody(given, spelling),
                        stage |-> "received", record |-> NoRecord, row |-> << >> ]

NextRecord == parse_body \/ persist_record

SpecRecord == InitRecord /\ [][NextRecord]_vars

\* ------------------------------------------------------------------ claims

\* Rows of marcaciones_test committed on behalf of submissions carrying token t.
RowsFor(t) == {i \in 1..Len(marcaciones_test) : marcaciones_test[i].by_token = t}

\* The handler body of request r runs in this step.
HandlerStep(r) == req[r].pc = "in_flight" /\ req'[r].pc = "responded"

\* call_next handed request r a 200 response.
Has200(r) ==
    /\ req[r].pc \in {"responded", "done"}
    /\ req[r].down.kind = "response"
    /\ req[r].down.status = 200

\* Request r is an idempotent submission answered as first-seen.
FirstSuccess(r) ==
    /\ req[r].endpoint = EP_IDEMPOTENT
    /\ Has200(r)
    /\ ~req[r].down.body.is_duplicate

\* Request r is an idempotent submission answered as a duplicate.
Replayed(r) ==
    /\ req[r].endpoint = EP_IDEMPOTENT
    /\ Has200(r)
    /\ req[r].down.body.is_duplicate

\* C1: for every token, at most one row is committed on behalf of the
\* submissions that carry it, however often the token is submitted.
C1_AtMostOneRowPerToken == \A t \in Tokens : Cardinality(RowsFor(t)) <= 1

\* C2: once a submission with token T got a first-seen response with
\* record_id R, every submission with T whose handler runs afterwards gets a
\* 200 response with record_id R, is_duplicate true and processing_time_ms 0.
C2_SequentialReplay ==
    [][\A r, q \in Reqs :
        ( /\ HandlerStep(r)
          /\ req[r].endpoint = EP_IDEMPOTENT
          /\ q # r
          /\ FirstSuccess(q)
          /\ req[q].token = req[r].token )
        => /\ req'[r].down.kind = "response"
           /\ req'[r].down.status = 200
           /\ req'[r].down.body.record_id = req[q].down.body.record_id
           /\ req'[r].down.body.is_duplicate = TRUE
           /\ req'[r].down.body.processing_time_ms = 0]_vars

\* C2 witness: a first-seen submission finished, and a second submission with
\* the same token finished as its replay.
C2_Witness ==
    \E q, r \in Reqs :
        /\ q < r
        /\ req[q].token = req[r].token
        /\ FirstSuccess(q) /\ req[q].finished = "returned"
        /\ req[q].down.body.processing_time_ms # 0
        /\ Replayed(r) /\ req[r].finished = "returned"

\* The submissions with token t that were in flight together while t was unseen.
Racers(t) == {r \in Reqs : req[r].raced /\ req[r].token = t}

\* C3, as stated: when two or more submissions with the same unseen token are
\* in flight together and each is answered by its handler, exactly one
\* persistence call is made for the token and all of them are answered with
\* the same record_id.
C3_ExactlyOneCall ==
    \A t \in Tokens :
        (Racers(t) # {} /\ \A r \in Racers(t) : req[r].finished = "returned")
        => /\ save_calls[t].made = 1
           /\ \A r \in Racers(t) : Has200(r)
           /\ \A r, q \in Racers(t) :
                req[r].down.body.record_id = req[q].down.body.record_id

\* C3, amended: of the persistence calls made for a token at most one
\* returns; the racing submissions that get a 200 response all carry the
\* record_id of that call, at most one of them is answered as first-seen, and
\* every other one is handed the stored response, annotated as a duplicate.
C3_OneWinner ==
    \A t \in Tokens :
        /\ save_calls[t].returned <= 1
        /\ \A r, q \in Racers(t) :
            (Has200(r) /\ Has200(q))
            => /\ req[r].down.body.record_id = req[q].down.body.record_id
               /\ (FirstSuccess(r) /\ FirstSuccess(q)) => r = q
        /\ \A r \in Racers(t) :
            Replayed(r)
            => /\ save_calls[t].returned = 1
               /\ token_seen(processed_tokens, t)
               /\ req[r].down.body = replay_duplicate(processed_tokens[t]).result

\* C3 witness: two racing submissions of one token are both answered, one as
\* first-seen and one with the stored response.
C3_Witness ==
    \E t \in Tokens : \E r, q \in Racers(t) :
        /\ FirstSuccess(r) /\ Replayed(q)
        /\ req[r].pc = "done" /\ req[q].pc = "done"
        /\ save_calls[t].made = 1

\* An idempotent submission whose token is not cached is handled in this step.
FirstSeenStep(r) ==
    /\ HandlerStep(r)
    /\ req[r].endpoint = EP_IDEMPOTENT
    /\ ~token_seen(processed_tokens, req[r].token)

\* C4: a first-seen submission invokes the persistence call; when the call
\* fails the caller gets the failure and the cache is left as it was, so the
\* token is again first-seen; when it returns the answer is not a duplicate.
C4_NoPoisonedEntries ==
    [][\A r \in Reqs :
        FirstSeenStep(r)
        => /\ save_calls'[req[r].token].made = save_calls[req[r].token].made + 1
           /\ IF save_calls'[req[r].token].returned = save_calls[req[r].token].returned
              THEN /\ processed_tokens' = processed_tokens
                   /\ req'[r].down \in {DatabaseError, Raised}
              ELSE /\ req'[r].down.kind = "response"
                   /\ req'[r].down.status = 200
                   /\ req'[r].down.body.is_duplicate = FALSE]_vars

\* C4 witness: a submission failed in the persistence call and a later one
\* with the same token was answered as first-seen.
C4_Witness ==
    \E r, q \in Reqs :
        /\ r < q
        /\ req[r].endpoint = EP_IDEMPOTENT /\ req[q].endpoint = EP_IDEMPOTENT
        /\ req[r].token = req[q].token
        /\ req[r].pc = "done" /\ req[r].down = DatabaseError
        /\ FirstSuccess(q)
        /\ save_calls[req[r].token].made = 2

\* C5: an entry of the cache is never removed and never changes, it holds
\* the first-seen response (is_duplicate false), and a submission whose token
\* is cached calls no persistence and leaves the cache as it is.
C5_ImmutableEntries ==
    [][/\ \A t \in DOMAIN processed_tokens :
            /\ t \in DOMAIN processed_tokens'
            /\ processed_tokens'[t] = processed_tokens[t]
            /\ processed_tokens[t].is_duplicate = FALSE
       /\ \A r \in Reqs :
            ( /\ HandlerStep(r)
              /\ req[r].endpoint = EP_IDEMPOTENT
              /\ token_seen(processed_tokens, req[r].token) )
            => /\ processed_tokens' = processed_tokens
               /\ marcaciones_test' = marcaciones_test
               /\ save_calls' = save_calls]_vars

\* C5 witness: a token was replayed twice and its entry still holds the
\* first-seen response.
C5_Witness ==
    \E t \in DOMAIN processed_tokens : \E r, q \in Reqs :
        /\ r # q
        /\ req[r].token = t /\ req[q].token = t
        /\ Replayed(r) /\ Replayed(q)
        /\ processed_tokens[t].is_duplicate = FALSE
        /\ processed_tokens[t].processing_time_ms # 0

\* The retained latency sequence of endpoint e.
Retained(e) == GetOr(request_times, e, << >>)

\* C6: the retained sequence of every endpoint has min(n, 50) samples after n
\* recordings for it: never more than 50, and no append is lost.
C6_BoundedRetention ==
    \A e \in Endpoints :
        /\ Len(Retained(e)) <= RetentionCap
        /\ Len(Retained(e)) = Min(Len(recorded[e]), RetentionCap)

\* C6 witness: an endpoint with more than 50 recordings retains 50 while
\* another endpoint has recordings of its own.
C6_Witness ==
    \E e, f \in Endpoints :
        /\ e # f
        /\ Len(recorded[e]) > RetentionCap
        /\ Len(Retained(e)) = RetentionCap
        /\ Len(recorded[f]) > 0

\* The mean of the last 50 durations recorded for endpoint e.
MeanOfLast(e) ==
    LET last == LastN(recorded[e], RetentionCap) IN Quot(Sum(last), Len(last))

\* C7: the retained samples of an endpoint are the min(n, 50) most recently
\* recorded durations in arrival order, and the mean the metrics read reports
\* for it is the mean of those.
C7_FifoRetention ==
    \A e \in Endpoints :
        /\ Retained(e) = LastN(recorded[e], RetentionCap)
        /\ recorded[e] # << >>
           => /\ e \in DOMAIN request_times
              /\ QuotEq(metrics_body(request_times, success_counts, error_counts,
                                      processed_tokens, mysql_pool).avg_response_times[e],
                        MeanOfLast(e))

\* C7 witness: after 60 recordings the retained samples are the last 50, which
\* differ from the first 50 in content and in mean.
C7_Witness ==
    \E e \in Endpoints :
        /\ Len(recorded[e]) = RetentionCap + 10
        /\ Retained(e) = SubSeq(recorded[e], 11, RetentionCap + 10)
        /\ Retained(e) # SubSeq(recorded[e], 1, RetentionCap)
        /\ Sum(Retained(e)) # Sum(SubSeq(recorded[e], 1, RetentionCap))

\* The metrics read of request r runs in this step.
MetricsRead(r) == HandlerStep(r) /\ req[r].endpoint = EP_METRICS

\* C8: a metrics read reports, for every endpoint, as many successes and
\* errors as record_success and record_error were called for it (an endpoint
\* without an entry counts as 0).
C8_CounterExactness ==
    [][\A r \in Reqs :
        MetricsRead(r)
        => \A e \in Endpoints :
            /\ GetOr(req'[r].down.body.success_counts, e, 0) = success_calls[e]
            /\ GetOr(req'[r].down.body.error_counts, e, 0) = error_calls[e]]_vars

\* C8 witness: a metrics read reported an endpoint with successes and errors.
C8_Witness ==
    \E r \in Reqs : \E e \in Endpoints :
        /\ req[r].endpoint = EP_METRICS
        /\ Has200(r)
        /\ GetOr(req[r].down.body.success_counts, e, 0) = 1
        /\ GetOr(req[r].down.body.error_counts, e, 0) = 1
        /\ success_calls[e] = 1 /\ error_calls[e] = 1

\* The requests for endpoint e that have finished.
Finished(e) == {r \in Reqs : req[r].pc = "done" /\ req[r].endpoint = e}

\* C9: every finished request has left a latency sample and an outcome in
\* the collector for its endpoint.
C9_MetricsForEveryRequest ==
    \A e \in Endpoints :
        /\ Len(Retained(e)) = Cardinality(Finished(e))
        /\ GetOr(success_counts, e, 0) + GetOr(error_counts, e, 0)
           = Cardinality(Finished(e))

\* C10: a metrics read reports, for every endpoint with a recorded request, the
\* mean of its retained samples (0 when it has none) and its two counts (an
\* endpoint without a count entry counts as 0).
C10_SnapshotCoverage ==
    [][\A r \in Reqs :
        MetricsRead(r)
        => \A e \in Endpoints :
            success_calls[e] + error_calls[e] > 0
            => /\ e \in DOMAIN req'[r].down.body.avg_response_times
               /\ QuotEq(req'[r].down.body.avg_response_times[e],
                         avg_response_time(Retained(e)))
               /\ GetOr(req'[r].down.body.success_counts, e, 0) = success_calls[e]
               /\ GetOr(req'[r].down.body.error_counts, e, 0) = error_calls[e]]_vars

\* A metrics read answered request r.
MetricsAnswered(r) == req[r].endpoint = EP_METRICS /\ Has200(r)

\* C11: in every metrics response total_requests is the sum of the success
\* counts plus the sum of the error counts of that same response.
C11_ConsistentTotals ==
    \A r \in Reqs :
        MetricsAnswered(r)
        => LET body == req[r].down.body IN
           body.total_requests
           = SumOver(body.success_counts, DOMAIN body.success_counts)
             + SumOver(body.error_counts, DOMAIN body.error_counts)

\* C11 witness: a metrics read reported an error while another request,
\* handled but not yet recorded, was in flight.
C11_Witness ==
    \E r, q \in Reqs :
        /\ MetricsAnswered(r)
        /\ q # r /\ req[q].pc = "responded"
        /\ DOMAIN req[r].down.body.error_counts # {}
        /\ req[r].down.body.total_requests = 1

\* Request r ends in the timeout branch in this step.
TimesOut(r) == req[r].pc # "done" /\ req'[r].finished = "timeout_504"

\* C17: a request that exceeds the deadline ends with the 504 error instead
\* of the handler's response; the error counter of its endpoint grows by one
\* and neither a success nor a latency sample is recorded.
C17_DeadlineAbort ==
    [][\A r \in Reqs :
        TimesOut(r)
        => /\ req'[r].pc = "done"
           /\ GetOr(error_counts', req[r].endpoint, 0)
              = GetOr(error_counts, req[r].endpoint, 0) + 1
           /\ \A e \in Endpoints \ {req[r].endpoint} :
                GetOr(error_counts', e, 0) = GetOr(error_counts, e, 0)
           /\ success_counts' = success_counts
           /\ request_times' = request_times]_vars

\* C17 witness: a request whose handler had produced a response timed out,
\* and its endpoint has one error, no success and no latency sample.
C17_Witness ==
    \E r \in Reqs :
        /\ req[r].finished = "timeout_504"
        /\ req[r].down.kind = "response"
        /\ GetOr(error_counts, req[r].endpoint, 0) = 1
        /\ req[r].endpoint \notin DOMAIN success_counts
        /\ req[r].endpoint \notin DOMAIN request_times

\* A simulate_compression call has returned.
Compressed == call.op = "simulate_compression" /\ call.done

\* C12: the ratio of a nonempty input is above 0 and at most 1 for either
\* scheme, and the ratio of the empty input is 1.
C12_RatioRange ==
    Compressed
    => IF Utf8Len(call.data) > 0
       THEN /\ call.ratio.num > 0
            /\ call.ratio.num <= call.ratio.den
            /\ call.compressed_size <= Utf8Len(call.data)
       ELSE QuotEq(call.ratio, Quot(1, 1))

\* k is floor(0.4 * n).
IsFloorOfFourTenths(k, n) == 10 * k <= 4 * n /\ 4 * n < 10 * (k + 1)

\* C18: with a selector other than the real compressor, compressed_size is
\* floor(0.4 * n) for an input of n bytes and the ratio is compressed_size / n,
\* or 1 when n = 0.
C18_EstimatedCompression ==
    (Compressed /\ call.compression_type # "gzip")
    => LET n == Utf8Len(call.data) IN
       /\ IsFloorOfFourTenths(call.compressed_size, n)
       /\ IF n = 0
          THEN QuotEq(call.ratio, Quot(1, 1))
          ELSE QuotEq(call.ratio, Quot(call.compressed_size, n))

\* C18 witness: an estimate for a text with multi-byte characters whose
\* 0.4 * n is not a whole number.
C18_Witness ==
    /\ Compressed
    /\ call.compression_type = "estimated"
    /\ Utf8Len(call.data) > Len(call.data)
    /\ (4 * Utf8Len(call.data)) % 10 > 5
    /\ call.compressed_size > 0

\* The persistence call of request r failed: it raised HTTPException from its
\* except branch, or conn.close() raised in its finally.
SaveFailed(r) == req[r].save \in {"http_500", "raised"}

\* The middleware returned call_next's response to the caller of r.
Answered(r) == req[r].pc = "done" /\ req[r].finished = "returned"

\* The caller of r got an error: the handler's 500 response, or the server's
\* answer to the exception the middleware raised (timeout) or re-raised.
ErrorAnswer(r) ==
    /\ req[r].pc = "done"
    /\ \/ req[r].finished \in {"timeout_504", "reraised"}
       \/ Answered(r) /\ req[r].down.status >= 500

\* The caller of r got a body that carries success or a record_id.
SuccessAnswer(r) ==
    /\ Answered(r)
    /\ \/ "success" \in DOMAIN req[r].down.body
       \/ "record_id" \in DOMAIN req[r].down.body

\* C13: write failures are never swallowed.  A finished submission (standard,
\* compact or idempotent) whose persistence call failed was answered with a
\* 5xx error, and not with a body that carries success or a record_id.
C13_WriteFailuresSurface ==
    \A r \in Reqs :
        (req[r].pc = "done" /\ req[r].endpoint \in WriteEndpoints /\ SaveFailed(r))
            => ErrorAnswer(r) /\ ~SuccessAnswer(r)

\* A compact submission whose write failed was answered 500, and an idempotent
\* one whose connection could not be released ended in the re-raised exception.
C13_Witness ==
    \E r, q \in Reqs :
        /\ req[r].endpoint = EP_COMPRESSED /\ req[r].save = "http_500"
        /\ Answered(r) /\ req[r].down = DatabaseError
        /\ req[q].endpoint = EP_IDEMPOTENT /\ req[q].save = "raised"
        /\ req[q].pc = "done" /\ req[q].finished = "reraised"

\* C14: standard submission result.  The handler step of a standard submission
\* whose persistence call returns appends exactly one row, of test type
\* "standard", whose id no earlier row has, and produces a 200 response with
\* success = true, payload_size_bytes > 0 and record_id = the positive id of
\* that row.
C14_StandardResult ==
    [][\A r \in Reqs :
        (HandlerStep(r) /\ req[r].endpoint = EP_STANDARD /\ req'[r].save = "returned")
            => LET body == req'[r].down.body
                   n == Len(marcaciones_test)
               IN /\ req'[r].down.kind = "response" /\ req'[r].down.status = 200
                  /\ body.success = TRUE
                  /\ body.payload_size_bytes > 0
                  /\ body.record_id > 0
                  /\ Len(marcaciones_test') = n + 1
                  /\ SubSeq(marcaciones_test', 1, n) = marcaciones_test
                  /\ marcaciones_test'[n + 1].id = body.record_id
                  /\ marcaciones_test'[n + 1].test_type = "standard"
                  /\ \A i \in 1..n : marcaciones_test[i].id # body.record_id]_vars

\* Two standard submissions were persisted and answered, with different
\* record ids and, for different records, different payload sizes.
C14_Witness ==
    \E r, q \in Reqs :
        /\ r # q
        /\ req[r].endpoint = EP_STANDARD /\ req[q].endpoint = EP_STANDARD
        /\ req[r].save = "returned" /\ req[q].save = "returned"
        /\ Answered(r) /\ Answered(q)
        /\ req[r].down.body.record_id < req[q].down.body.record_id
        /\ req[r].down.body.payload_size_bytes # req[q].down.body.payload_size_bytes
        /\ Len(marcaciones_test) = 3

\* The health read of request r ran in this step.
HealthRead(r) == HandlerStep(r) /\ req[r].endpoint = EP_HEALTH

\* C15: the health read never fails and reports reachability.  Whatever the
\* run meets (no pool, no connection, a raising probe), the handler produces a
\* normal 200 response; its database field is "healthy" only if a connection
\* was obtained and the probe fetched 1, and is otherwise one of
\* "pool not initialized", "not connected" and "unhealthy".
C15_HealthNeverFails ==
    [][\A r \in Reqs :
        HealthRead(r) =>
            LET run == call'.run
                reached == run.connected /\ ~run.probe_raised /\ run.row = << 1 >>
                database == req'[r].down.body.database
            IN /\ call'.op = "health_check" /\ call'.request = r
               /\ req'[r].down.kind = "response" /\ req'[r].down.status = 200
               /\ database = "healthy" => reached
               /\ ~reached => database \in {"pool not initialized", "not connected",
                                            "unhealthy"}]_vars

\* Health reads were answered 200 with "healthy", with "unhealthy" after a
\* raising probe, and with "not connected" after a probe that fetched 0.
C15_Witness ==
    \E r, q, p \in Reqs :
        /\ Answered(r) /\ req[r].endpoint = EP_HEALTH
        /\ req[r].down.status = 200 /\ req[r].down.body.database = "healthy"
        /\ Answered(q) /\ req[q].down.body.database = "unhealthy"
        /\ req[p].pc = "responded" /\ req[p].down.body.database = "not connected"
        /\ call.op = "health_check" /\ call.request = p /\ call.run.row = << 0 >>

\* The handler of request b can take its next step.
HandlerCanRun(b) == ENABLED (loop_replay(b) \/ loop_enter_save(b))

\* C16: different tokens do not block each other.  Whenever a first-seen
\* submission for one token is inside its persistence call, an admitted
\* submission that carries a different token can run its handler (look up the
\* cache and start its own persistence call) without waiting for the first.
C16_DifferentTokensProceed ==
    \A a, b \in Reqs :
        (InSave(a) /\ InFlight(b) /\ req[b].token # req[a].token)
            => HandlerCanRun(b)

\* The column of marcaciones_test that holds field f.
ColumnOf(f) ==
    CASE f = "userName" -> "user_name"
      [] f = "userEmail" -> "user_email"
      [] f = "userDni" -> "user_dni"
      [] f = "qrCode" -> "qr_code"
      [] f = "marcationType" -> "marcation_type"
      [] f = "latitude" -> "latitude"
      [] f = "longitude" -> "longitude"
      [] f = "deviceId" -> "device_id"

\* A record went through validation and its row was written.
Persisted == call.op = "submit" /\ call.stage = "persisted"

\* C19: wire-shape equivalence.  For every record, the row written from its
\* verbose-key dictionary and the row written from its compact-key dictionary
\* are the same, and each of the eight record columns holds the record's value
\* of its field; the row that was written is that row.
C19_WireShapeEquivalence ==
    Persisted =>
        LET from_verbose == row_values(verbose_dict(call.record))
            from_compact == row_values(compact_dict(call.record))
        IN /\ from_verbose = from_compact
           /\ call.row = from_verbose
           /\ \A f \in FieldSet : from_compact[ColumnOf(f)] = call.record[f]

\* A compact body with short keys and pairwise different neighbouring values
\* was persisted.
C19_Witness ==
    /\ Persisted
    /\ call.model = "MarcacionCompacta"
    /\ "q" \in DOMAIN call.wire
    /\ call.row.user_email = Str(<< >>)
    /\ call.row.qr_code = Str(<< "a" >>)
    /\ call.row.latitude = Float(-12)
    /\ call.row.longitude = Float(0)

\* C20: required fields at the boundary.  Every persisted row comes from a
\* body that gave every required field, and none of its text columns is the
\* empty string.
C20_RequiredFieldsNonEmpty ==
    Persisted =>
        \A f \in FieldSet :
            /\ call.record[f] # Missing
            /\ call.row[ColumnOf(f)] # Str(<< >>)

\* The finished requests to endpoint e whose persistence call failed with the
\* handler's database error.
FailedWrites(e) ==
    {r \in Reqs : req[r].pc = "done" /\ req[r].endpoint = e /\ req[r].save = "http_500"}

\* The finished requests to endpoint e that returned a successful response.
SuccessfulAnswers(e) ==
    {r \in Reqs : req[r].endpoint = e /\ Answered(r) /\ req[r].down.status = 200}

\* C21: outcome classification.  For every submission endpoint, the requests
\* whose persistence call failed are all counted in its error counter, and its
\* success counter counts exactly the requests that returned a successful
\* response.
C21_OutcomeClassification ==
    \A e \in WriteEndpoints :
        /\ GetOr(error_counts, e, 0) >= Cardinality(FailedWrites(e))
        /\ GetOr(success_counts, e, 0) = Cardinality(SuccessfulAnswers(e))

\* The middleware finishes request r in this step.
FinishStep(r) == req[r].pc # "done" /\ req'[r].pc = "done"

\* Counter c of endpoint e grows by n in this step.
Grows(c, e, n) == GetOr(c', e, 0) = GetOr(c, e, 0) + n

\* C22: one outcome per request, counters monotone.  The step that finishes a
\* request adds 1 to exactly one of the success and error counters of its
\* endpoint and leaves every other counter alone; no step lowers a counter;
\* and the total_requests a metrics read reports is the number of requests
\* finished when the read produces its response.
C22_OneOutcomePerRequest ==
    [][/\ \A r \in Reqs :
            FinishStep(r) =>
                LET e == req[r].endpoint IN
                /\ \/ Grows(success_counts, e, 1) /\ Grows(error_counts, e, 0)
                   \/ Grows(success_counts, e, 0) /\ Grows(error_counts, e, 1)
                /\ \A o \in AllEndpoints \ {e} :
                        Grows(success_counts, o, 0) /\ Grows(error_counts, o, 0)
       /\ \A e \in AllEndpoints :
            /\ GetOr(success_counts', e, 0) >= GetOr(success_counts, e, 0)
            /\ GetOr(error_counts', e, 0) >= GetOr(error_counts, e, 0)
       /\ \A r \in Reqs :
            MetricsRead(r) =>
                req'[r].down.body.total_requests
                    = Cardinality({q \in Reqs : req[q].pc = "done"})]_vars

\* A metrics read reported two requests, one counted as a success and one as
\* an error, after exactly two requests had finished.
C22_Witness ==
    \E r \in Reqs :
        /\ req[r].endpoint = EP_METRICS /\ req[r].pc = "responded"
        /\ req[r].down.body.total_requests = 2
        /\ Cardinality({q \in Reqs : req[q].pc = "done"}) = 2
        /\ DOMAIN success_counts # {} /\ DOMAIN error_counts # {}

\* The rows committed by idempotent submissions.
TokenRows == {i \in 1..Len(marcaciones_test) : marcaciones_test[i].test_type = "idempotent"}

\* C23: cache and store agree.  The number of cached tokens equals the number
\* of rows committed by idempotent submissions, a token is cached exactly when
\* a row was committed for it, and distinct cached tokens hold the record ids
\* of distinct rows.
C23_CacheMatchesStore ==
    /\ Cardinality(DOMAIN processed_tokens) = Cardinality(TokenRows)
    /\ \A t \in Tokens : token_seen(processed_tokens, t) <=> RowsFor(t) # {}
    /\ \A t, u \in DOMAIN processed_tokens :
            t # u => processed_tokens[t].record_id # processed_tokens[u].record_id
    /\ \A t \in DOMAIN processed_tokens :
            \E i \in RowsFor(t) : marcaciones_test[i].id = processed_tokens[t].record_id

\* The handler of idempotent request r runs in this step and finds its token
\* cached.
ReplayStep(r) ==
    /\ HandlerStep(r)
    /\ req[r].endpoint = EP_IDEMPOTENT
    /\ req[r].token \in DOMAIN processed_tokens

\* C24: replay depends only on the token.  A submission whose token is cached
\* is answered 200 with the stored response of that token, annotated
\* is_duplicate = true and processing_time_ms = 0, whatever record it carries;
\* the step writes no row and leaves the cache as it was.
C24_ReplayByTokenOnly ==
    [][\A r \in Reqs :
        ReplayStep(r) =>
            LET stored == processed_tokens[req[r].token] IN
            /\ req'[r].down = Response(200, [stored EXCEPT !.is_duplicate = TRUE,
                                                           !.processing_time_ms = 0])
            /\ req'[r].save = "none"
            /\ marcaciones_test' = marcaciones_test
            /\ processed_tokens' = processed_tokens]_vars

\* A duplicate that carried another record than the first submission of its
\* token was answered with the payload size of the first record.
C24_Witness ==
    \E r, q \in Reqs :
        /\ q < r
        /\ req[q].endpoint = EP_IDEMPOTENT /\ req[r].endpoint = EP_IDEMPOTENT
        /\ req[q].token = req[r].token
        /\ req[q].data # req[r].data
        /\ req[q].save = "returned"
        /\ req[r].pc = "responded" /\ req[r].save = "none"
        /\ req[r].down.body.is_duplicate = TRUE
        /\ req[r].down.body.payload_size_bytes
                = calculate_payload_size(verbose_dict(req[q].data))
        /\ req[r].down.body.payload_size_bytes
                # calculate_payload_size(verbose_dict(req[r].data))
        /\ Cardinality(RowsFor(req[r].token)) = 1

\* No request is between its arrival and the end of its middleware.
Quiescent == \A r \in Reqs : req[r].pc \in {"new", "done"}

\* C25: connections are always released.  Whenever no request is in flight,
\* no connection of the pool is checked out; and the pool always has a
\* connection left for the next request.
C25_ConnectionsReleased ==
    /\ Quiescent => checked_out = 0
    /\ mysql_pool => checked_out < pool_size

====
